---- MODULE Spec2Model ----
(***************************************************************************)
(* Radar tracking core of augg19: the constant-velocity Kalman filter, the *)
(* measurement grouper, the clustering / JPDA selector and the drivers of  *)
(* src/of.py, and the track manager and driver of src/test1.py.            *)
(*                                                                         *)
(* Numbers.  The program computes in IEEE doubles; the model computes in   *)
(* exact rationals <<n, d>> (d > 0, lowest terms).  Timestamps are whole   *)
(* milliseconds; predict_step and initialize_filter_state turn a           *)
(* difference of timestamps into seconds (ms / 1000).  Angles are whole    *)
(* degrees on the axis-aligned directions, where sine, cosine and atan2    *)
(* are table values.  np.exp is kept symbolic (see Likelihood).            *)
(* Python indexes from 0, the model from 1: Sf[0] of the source is Sf[1].  *)
(***************************************************************************)
EXTENDS Integers, Sequences, FiniteSets, TLC

VARIABLES
    measurements,        \* the detection list main() works on
    measurement_groups,  \* result of form_measurement_groups
    pc,                  \* position of the running driver / function
    group_idx,           \* index of the group being processed
    i,                   \* index of the detection inside the group
    kalman_filter,       \* the CVFilter object
    clusters,            \* result of form_clusters for the current detection
    best_hypothesis,     \* result of jpda
    out,                 \* output records (t, rnge, azme, elem)
    log,                 \* filter / associator calls made so far, in order
    tracks,              \* TrackManager.tracks
    ret,                 \* track returned by the last get_free_track
    rows                 \* CSV rows (mr, ma, me, mt) not yet read

vars == <<measurements, measurement_groups, pc, group_idx, i, kalman_filter,
          clusters, best_hypothesis, out, log, tracks, ret, rows>>

-----------------------------------------------------------------------------
(* Exact rational arithmetic *)

Abs(x) == IF x < 0 THEN -x ELSE x

RECURSIVE GCD(_, _)
GCD(a, b) == IF b = 0 THEN a ELSE GCD(b, a % b)

Rat(n, d) ==
    LET g == GCD(Abs(n), Abs(d))
        s == IF d < 0 THEN -1 ELSE 1
    IN  <<(s * n) \div g, (s * d) \div g>>

Zero == <<0, 1>>
One == <<1, 1>>
IntR(n) == <<n, 1>>

RAdd(a, b) ==
    IF a[1] = 0 THEN b
    ELSE IF b[1] = 0 THEN a
    ELSE LET g == GCD(a[2], b[2])
         IN  Rat(a[1] * (b[2] \div g) + b[1] * (a[2] \div g), (a[2] \div g) * b[2])

RNeg(a) == <<-a[1], a[2]>>

RSub(a, b) == RAdd(a, RNeg(b))

RMul(a, b) ==
    IF a[1] = 0 \/ b[1] = 0 THEN Zero
    ELSE LET g1 == GCD(Abs(a[1]), b[2])
             g2 == GCD(Abs(b[1]), a[2])
         IN  <<(a[1] \div g1) * (b[1] \div g2), (a[2] \div g2) * (b[2] \div g1)>>

RInv(a) == IF a[1] < 0 THEN <<-a[2], -a[1]>> ELSE <<a[2], a[1]>>

RDiv(a, b) == RMul(a, RInv(b))

(* a < b: by the integer parts, and by the fractional parts when those agree *)
RLess(a, b) ==
    LET qa == a[1] \div a[2]
        qb == b[1] \div b[2]
        g  == GCD(a[2], b[2])
    IN  IF qa # qb THEN qa < qb
        ELSE (a[1] % a[2]) * (b[2] \div g) < (b[1] % b[2]) * (a[2] \div g)

-----------------------------------------------------------------------------
(* numpy arrays: a matrix is a sequence of rows, a row a sequence of       *)
(* rationals; a column vector is an n x 1 matrix.                          *)

NRows(A) == Len(A)
NCols(A) == Len(A[1])

(* the sequence <<F(1), ..., F(n)>>, built entry by entry *)
Tab(n, F(_)) ==
    LET RECURSIVE Build(_)
        Build(k) == IF k = 0 THEN <<>> ELSE Append(Build(k - 1), F(k))
    IN  Build(n)

Mat(n, m, F(_, _)) ==
    LET Row(r) == LET Entry(c) == F(r, c) IN Tab(m, Entry)
    IN  Tab(n, Row)

RECURSIVE DotSum(_, _, _, _, _)
DotSum(A, B, r, c, k) ==
    IF k = 0 THEN Zero
    ELSE RAdd(DotSum(A, B, r, c, k - 1), RMul(A[r][k], B[k][c]))

Dot(A, B) ==
    LET E(r, c) == DotSum(A, B, r, c, NCols(A)) IN Mat(NRows(A), NCols(B), E)

Transpose(A) == LET E(r, c) == A[c][r] IN Mat(NCols(A), NRows(A), E)

MAdd(A, B) == LET E(r, c) == RAdd(A[r][c], B[r][c]) IN Mat(NRows(A), NCols(A), E)

MSub(A, B) == LET E(r, c) == RSub(A[r][c], B[r][c]) IN Mat(NRows(A), NCols(A), E)

MScale(A, k) == LET E(r, c) == RMul(A[r][c], k) IN Mat(NRows(A), NCols(A), E)

Eye(n, m) == LET E(r, c) == IF r = c THEN One ELSE Zero IN Mat(n, m, E)

Zeros(n, m) == LET E(r, c) == Zero IN Mat(n, m, E)

ColVec(x, y, z) == <<<<x>>, <<y>>, <<z>>>>

(* np.linalg.inv by Gauss-Jordan elimination on [A | I]; "LinAlgError"    *)
(* when no pivot is left in a column (singular matrix).                    *)
RECURSIVE Eliminate(_, _, _)
Eliminate(A, B, c) ==
    IF c > NRows(A) THEN B
    ELSE LET cand == {r \in c..NRows(A) : A[r][c] # Zero}
         IN  IF cand = {} THEN "LinAlgError"
             ELSE LET p  == CHOOSE r \in cand : \A q \in cand : r <= q
                      A1 == [A EXCEPT ![c] = A[p], ![p] = A[c]]
                      B1 == [B EXCEPT ![c] = B[p], ![p] = B[c]]
                      piv == A1[c][c]
                      (* row c divided by the pivot, row c taken off the others *)
                      Red(M, r, k) ==
                          IF r = c THEN RDiv(M[c][k], piv)
                          ELSE RSub(M[r][k], RMul(A1[r][c], RDiv(M[c][k], piv)))
                      RedA(r, k) == Red(A1, r, k)
                      RedB(r, k) == Red(B1, r, k)
                  IN  Eliminate(Mat(NRows(A), NCols(A), RedA),
                                Mat(NRows(B), NCols(B), RedB), c + 1)

Inv(A) == Eliminate(A, Eye(NRows(A), NRows(A)), 1)

-----------------------------------------------------------------------------
(* Coordinate transforms.  Angles are whole degrees on the axis-aligned    *)
(* directions; np.sin, np.cos and math.atan2 are their table values there. *)

SinDeg(a) ==
    LET m == a % 360
    IN  CASE m = 0 -> 0 [] m = 90 -> 1 [] m = 180 -> 0 [] m = 270 -> -1

CosDeg(a) ==
    LET m == a % 360
    IN  CASE m = 0 -> 1 [] m = 90 -> 0 [] m = 180 -> -1 [] m = 270 -> 0

(* math.atan2(y, x) * 180 / pi, for arguments on an axis *)
Atan2Deg(y, x) ==
    CASE y = 0 /\ x >= 0 -> 0
      [] y = 0 /\ x < 0  -> 180
      [] y > 0 /\ x = 0  -> 90
      [] y < 0 /\ x = 0  -> -90

(* np.sqrt of a perfect square *)
Sqrt(m) == CHOOSE n \in 0..m : n * n = m

sph2cart(az, el, r) ==
    LET x == r * CosDeg(el) * SinDeg(az)
        y == r * CosDeg(el) * CosDeg(az)
        z == r * SinDeg(el)
    IN  <<x, y, z>>

cart2sph_az(x, y) ==
    LET az0 == Atan2Deg(y, x)
        az1 == IF x > 0 THEN 90 - az0 ELSE 270 - az0
        az2 == IF az1 < 0 THEN 360 + az1 ELSE az1
    IN  IF az2 > 360 THEN az2 - 360 ELSE az2

cart2sph(x, y, z) ==
    LET r  == Sqrt(x * x + y * y + z * z)
        el == Atan2Deg(z, Sqrt(x * x + y * y))
    IN  <<r, cart2sph_az(x, y), el>>

(* of.py: every CSV row (mr, ma, me, mt) is converted to Cartesian and    *)
(* back, and the converted (r, az, el) is what is kept.                    *)
read_measurements_from_csv(file) ==
    [k \in 1..Len(file) |->
        LET row == file[k]
            c   == sph2cart(row[2], row[3], row[1])
            s   == cart2sph(c[1], c[2], c[3])
        IN  <<s[1], s[2], s[3], row[4]>>]

(* test1.py keeps the row as read *)
read_measurements_from_csv_t1(file) ==
    [k \in 1..Len(file) |-> <<file[k][1], file[k][2], file[k][3], file[k][4]>>]

-----------------------------------------------------------------------------
(* CVFilter *)

plant_noise == 20

gate_threshold == Rat(900021, 100)

(* a difference of two timestamps, in seconds *)
Seconds(ms) == Rat(ms, 1000)

CVFilter ==
    [Sf |-> Zeros(6, 1), Pf |-> Eye(6, 6), Sp |-> Zeros(6, 1), Pp |-> Eye(6, 6),
     H |-> Eye(3, 6), R |-> Eye(3, 3), Meas_Time |-> 0, prev_Time |-> 0,
     Q |-> Eye(6, 6), Phi |-> Eye(6, 6),
     Z |-> Zeros(3, 1), Z1 |-> Zeros(3, 1), Z2 |-> Zeros(3, 1),
     first_rep_flag |-> FALSE, second_rep_flag |-> FALSE,
     vx |-> "unset", vy |-> "unset", vz |-> "unset"]

(* numpy division: a zero divisor gives inf or nan (and a warning), no error *)
NpDiv(a, b) ==
    IF b # Zero THEN RDiv(a, b)
    ELSE IF a = Zero THEN "nan"
    ELSE IF RLess(Zero, a) THEN "inf" ELSE "-inf"

initialize_filter_state(self, x, y, z, time) ==
    IF ~self.first_rep_flag THEN
        [self EXCEPT !.Z1 = ColVec(x, y, z),
                     !.Sf = [self.Sf EXCEPT ![1] = <<x>>, ![2] = <<y>>, ![3] = <<z>>],
                     !.Meas_Time = time,
                     !.prev_Time = time,
                     !.first_rep_flag = TRUE]
    ELSE IF self.first_rep_flag /\ ~self.second_rep_flag THEN
        LET Z2 == ColVec(x, y, z)
            dt == Seconds(time - self.Meas_Time)
        IN  [self EXCEPT !.Z2 = Z2,
                         !.prev_Time = self.Meas_Time,
                         !.Meas_Time = time,
                         !.vx = NpDiv(RSub(self.Z1[1][1], Z2[1][1]), dt),
                         !.vy = NpDiv(RSub(self.Z1[2][1], Z2[2][1]), dt),
                         !.vz = NpDiv(RSub(self.Z1[3][1], Z2[3][1]), dt),
                         !.second_rep_flag = TRUE]
    ELSE
        [self EXCEPT !.Z = ColVec(x, y, z),
                     !.prev_Time = self.Meas_Time,
                     !.Meas_Time = time]

predict_step(self, current_time) ==
    LET dt  == Seconds(current_time - self.prev_Time)
        T_2 == RDiv(RMul(dt, dt), IntR(2))
        T_3 == RDiv(RMul(RMul(dt, dt), dt), IntR(3))
        Phi == [self.Phi EXCEPT ![1][4] = dt, ![2][5] = dt, ![3][6] = dt]
        Q0  == [self.Q EXCEPT ![1][1] = T_3, ![2][2] = T_3, ![3][3] = T_3,
                              ![1][4] = T_2, ![2][5] = T_2, ![3][6] = T_2,
                              ![4][1] = T_2, ![5][2] = T_2, ![6][3] = T_2,
                              ![4][4] = dt, ![5][5] = dt, ![6][6] = dt]
        Q   == MScale(Q0, IntR(plant_noise))
    IN  [self EXCEPT !.Phi = Phi,
                     !.Q = Q,
                     !.Sp = Dot(Phi, self.Sf),
                     !.Pp = MAdd(Dot(Dot(Phi, self.Pf), Transpose(Phi)), Q),
                     !.Meas_Time = current_time]

update_step(self, Z) ==
    LET Inn == MSub(Z, Dot(self.H, self.Sp))
        S   == MAdd(Dot(self.H, Dot(self.Pp, Transpose(self.H))), self.R)
        K   == Dot(Dot(self.Pp, Transpose(self.H)), Inv(S))
    IN  [self EXCEPT !.Sf = MAdd(self.Sp, Dot(K, Inn)),
                     !.Pf = Dot(MSub(Eye(6, 6), Dot(K, self.H)), self.Pp)]

(* d2 = Inn' S^-1 Inn of a measurement vector against (Sp, Pp) *)
Mahalanobis(Z, self) ==
    LET Inn == MSub(Z, Dot(self.H, self.Sp))
        S   == MAdd(Dot(self.H, Dot(self.Pp, Transpose(self.H))), self.R)
    IN  Dot(Dot(Transpose(Inn), Inv(S)), Inn)[1][1]

gating(self, Z) == RLess(Mahalanobis(Z, self), gate_threshold)


-----------------------------------------------------------------------------
(* Grouper *)

(* 0.050 s, in milliseconds *)
max_time_diff == 50

InWindowStrict(diff, mtd) == diff < mtd

(* measurement[3] - base_time <= max_time_diff *)
InWindow(diff, mtd) == diff <= mtd

RECURSIVE GroupLoop(_, _, _, _, _, _)
GroupLoop(ms, k, groups, current_group, base_time, mtd) ==
    IF k > Len(ms) THEN
        IF current_group # <<>> THEN Append(groups, current_group) ELSE groups
    ELSE IF InWindow(ms[k][4] - base_time, mtd) THEN
        GroupLoop(ms, k + 1, groups, Append(current_group, ms[k]), base_time, mtd)
    ELSE
        GroupLoop(ms, k + 1, Append(groups, current_group), <<ms[k]>>, ms[k][4], mtd)

(* measurements[0] of an empty list raises IndexError before the loop *)
form_measurement_groups(ms, mtd) ==
    IF ms = <<>> THEN [err |-> "IndexError", groups |-> <<>>]
    ELSE [err |-> "none", groups |-> GroupLoop(ms, 1, <<>>, <<>>, ms[1][4], mtd)]

-----------------------------------------------------------------------------
(* Associator of of.py *)

(* the vector form_clusters and compute_hypothesis_likelihood build from a *)
(* measurement tuple: its first three fields, as they are                   *)
MeasVec(measurement) ==
    ColVec(IntR(measurement[1]), IntR(measurement[2]), IntR(measurement[3]))

chi_square_clustering(Z, self) == RLess(Mahalanobis(Z, self), gate_threshold)

form_clusters(ms, self) ==
    LET InGate(m) == chi_square_clustering(MeasVec(m), self)
    IN  SelectSeq(ms, InGate)

generate_hypotheses(cl) == cl

(* np.exp(x) for x <= 0 underflows to 0.0 below about -745.134; above it   *)
(* the value is kept as its exponent: [pos |-> TRUE, e |-> x] is exp(x).   *)
ExpUnderflowMilli == 745134

NpExp(x) ==
    IF RLess(x, Rat(-ExpUnderflowMilli, 1000)) THEN [pos |-> FALSE, e |-> Zero]
    ELSE [pos |-> TRUE, e |-> x]

(* exp(-0.5 * Inn' S^-1 Inn) *)
Likelihood(Z, self) == NpExp(RMul(Rat(-1, 2), Mahalanobis(Z, self)))

compute_hypothesis_likelihood(hypothesis, self) ==
    Likelihood(MeasVec(hypothesis), self)

(* a < b on likelihoods; exp is increasing *)
LikLess(a, b) == b.pos /\ (~a.pos \/ RLess(a.e, b.e))

(* total_likelihood is 0: a sum of non-negative terms is 0 iff each is *)
TotalIsZero(ls) == \A k \in 1..Len(ls) : ~ls[k].pos

(* likelihood / total_likelihood keeps the order of the likelihoods, so a  *)
(* marginal is kept as its numerator; the uniform fallback is 1/n each.    *)
MarginalProbabilities(ls) ==
    LET Uniform(k) == [pos |-> TRUE, e |-> Rat(1, Len(ls))]
    IN  IF TotalIsZero(ls) THEN Tab(Len(ls), Uniform) ELSE ls

ArgMaxLast(ps) ==
    CHOOSE k \in 1..Len(ps) :
        /\ \A j \in 1..Len(ps) : ~LikLess(ps[k], ps[j])
        /\ \A j \in (k + 1)..Len(ps) : LikLess(ps[j], ps[k])

(* np.argmax: the first index holding the maximum *)
ArgMax(ps) ==
    CHOOSE k \in 1..Len(ps) :
        /\ \A j \in 1..Len(ps) : ~LikLess(ps[k], ps[j])
        /\ \A j \in 1..(k - 1) : LikLess(ps[j], ps[k])

None == <<>>

jpda(cl, self) ==
    LET hypotheses == generate_hypotheses(cl)
    IN  IF hypotheses = <<>> THEN None
        ELSE LET L(k) == compute_hypothesis_likelihood(hypotheses[k], self)
                 hypothesis_likelihoods == Tab(Len(hypotheses), L)
             IN  hypotheses[ArgMax(MarginalProbabilities(hypothesis_likelihoods))]


-----------------------------------------------------------------------------
(* Inputs *)

MaxRange == 2
MaxDetections == 4
MaxClusters == 2
MaxTracks == 4
MaxHistory == 2
MaxCsvRows == 2
MaxT1Detections == 3

Ranges == 1..MaxRange
Azimuths == {0, 90, 180, 270}
Elevations == {0}
(* timestamps in ms of the driver runs: equal stamps and a gap beyond the  *)
(* grouping window                                                          *)
Times == {0, 100}
(* timestamps in ms for the grouper alone: around the window's edge *)
GroupTimes == {0, 49, 50, 51, 101}

SortedTimes(n, T) == {u \in [1..n -> T] : \A k \in 1..(n - 1) : u[k] <= u[k + 1]}

(* CSV files: rows (mr, ma, me, mt), sorted non-decreasing by mt *)
Files(R, az, T, maxLen) ==
    UNION {
        {[k \in 1..n |-> <<b[k][1], b[k][2], b[k][3], t[k]>>] :
            b \in [1..n -> R \X az \X Elevations], t \in SortedTimes(n, T)}
        : n \in 0..maxLen}

-----------------------------------------------------------------------------
(* main() of of.py *)

Event(op, g, Z, self) ==
    [op |-> op, g |-> g, Z |-> Z,
     first |-> self.first_rep_flag, second |-> self.second_rep_flag]

Group == measurement_groups[group_idx]
Detection == Group[i]
(* x, y, z = sph2cart(azm, ele, rng) of the detection at hand *)
Cart(d) == sph2cart(d[2], d[3], d[1])
CartVec(d) == ColVec(IntR(Cart(d)[1]), IntR(Cart(d)[2]), IntR(Cart(d)[3]))

(* the next iteration of the two nested for loops *)
Advance ==
    IF i < Len(Group) THEN
        /\ i' = i + 1
        /\ UNCHANGED group_idx
        /\ pc' = "detect"
    ELSE
        /\ i' = 1
        /\ group_idx' = group_idx + 1
        /\ pc' = IF group_idx < Len(measurement_groups) THEN "detect" ELSE "done"

ReadCsv ==
    /\ pc = "start"
    /\ measurements' = read_measurements_from_csv(rows)
    /\ pc' = "group"
    /\ UNCHANGED <<measurement_groups, group_idx, i, kalman_filter, clusters,
                   best_hypothesis, out, log, tracks, ret, rows>>

FormGroups ==
    /\ pc = "group"
    /\ LET res == form_measurement_groups(measurements, max_time_diff)
       IN  /\ measurement_groups' = res.groups
           /\ pc' = IF res.err # "none" THEN res.err ELSE "detect"
    /\ UNCHANGED <<measurements, group_idx, i, kalman_filter, clusters,
                   best_hypothesis, out, log, tracks, ret, rows>>

(* first and second detection: initialize_filter_state only *)
Initialize ==
    /\ pc = "detect"
    /\ ~(kalman_filter.first_rep_flag /\ kalman_filter.second_rep_flag)
    /\ LET c == Cart(Detection)
       IN  kalman_filter' = initialize_filter_state(kalman_filter,
               IntR(c[1]), IntR(c[2]), IntR(c[3]), Detection[4])
    /\ log' = Append(log, Event("initialize", group_idx, CartVec(Detection), kalman_filter))
    /\ Advance
    /\ UNCHANGED <<measurements, measurement_groups, clusters, best_hypothesis,
                   out, tracks, ret, rows>>

(* every later detection: initialize_filter_state records it, then the     *)
(* filter is predicted to its time                                          *)
Ingest ==
    /\ pc = "detect"
    /\ kalman_filter.first_rep_flag /\ kalman_filter.second_rep_flag
    /\ LET c == Cart(Detection)
       IN  kalman_filter' = initialize_filter_state(kalman_filter,
               IntR(c[1]), IntR(c[2]), IntR(c[3]), Detection[4])
    /\ log' = Append(log, Event("initialize", group_idx, CartVec(Detection), kalman_filter))
    /\ pc' = "predict"
    /\ UNCHANGED <<measurements, measurement_groups, group_idx, i, clusters,
                   best_hypothesis, out, tracks, ret, rows>>

Predict ==
    /\ pc = "predict"
    /\ kalman_filter' = predict_step(kalman_filter, Detection[4])
    /\ log' = Append(log, Event("predict", group_idx, <<>>, kalman_filter))
    /\ pc' = "cluster"
    /\ UNCHANGED <<measurements, measurement_groups, group_idx, i, clusters,
                   best_hypothesis, out, tracks, ret, rows>>

(* form_clusters(group, kalman_filter): every member of the group is gated *)
Cluster ==
    /\ pc = "cluster"
    /\ clusters' = form_clusters(Group, kalman_filter)
    /\ log' = log \o [k \in 1..Len(Group) |->
                        Event("gate", group_idx, MeasVec(Group[k]), kalman_filter)]
    /\ IF clusters' # <<>>
       THEN pc' = "jpda" /\ UNCHANGED <<group_idx, i>>
       ELSE Advance
    /\ UNCHANGED <<measurements, measurement_groups, kalman_filter,
                   best_hypothesis, out, tracks, ret, rows>>

Jpda ==
    /\ pc = "jpda"
    /\ best_hypothesis' = jpda(clusters, kalman_filter)
    /\ log' = log \o [k \in 1..Len(clusters) |->
                        Event("score", group_idx, MeasVec(clusters[k]), kalman_filter)]
    /\ pc' = "update"
    /\ UNCHANGED <<measurements, measurement_groups, group_idx, i, kalman_filter,
                   clusters, out, tracks, ret, rows>>

Update ==
    /\ pc = "update"
    /\ LET Z == MeasVec(best_hypothesis)
       IN  /\ kalman_filter' = update_step(kalman_filter, Z)
           /\ log' = Append(log, Event("update", group_idx, Z, kalman_filter))
    /\ out' = Append(out, [t |-> Detection[4],
                           rnge |-> kalman_filter'.Sf[1][1],
                           azme |-> kalman_filter'.Sf[2][1],
                           elem |-> kalman_filter'.Sf[3][1]])
    /\ Advance
    /\ UNCHANGED <<measurements, measurement_groups, clusters, best_hypothesis,
                   tracks, ret, rows>>

DriverAzimuths == {0, 90}

Fresh ==
    /\ measurements = <<>>
    /\ measurement_groups = <<>>
    /\ group_idx = 1
    /\ i = 1
    /\ kalman_filter = CVFilter
    /\ clusters = <<>>
    /\ best_hypothesis = None
    /\ out = <<>>
    /\ log = <<>>
    /\ tracks = <<>>
    /\ ret = 0

Init ==
    /\ rows \in Files(Ranges, DriverAzimuths, Times, MaxDetections)
    /\ pc = "start"
    /\ Fresh

Next ==
    \/ ReadCsv
    \/ FormGroups
    \/ Initialize
    \/ Ingest
    \/ Predict
    \/ Cluster
    \/ Jpda
    \/ Update

Spec == Init /\ [][Next]_vars

-----------------------------------------------------------------------------
(* The functions on their own: the CSV round trip, the grouper and jpda    *)
(* called on inputs drawn from bounded sets.                                *)

InitCsv ==
    /\ rows \in Files(Ranges, Azimuths, Times, MaxCsvRows)
    /\ pc = "start"
    /\ Fresh

SpecCsv == InitCsv /\ [][ReadCsv]_vars

InitGroup ==
    /\ rows = <<>>
    /\ pc = "group"
    /\ Fresh!2 /\ Fresh!3 /\ Fresh!4 /\ Fresh!5 /\ Fresh!6 /\ Fresh!7
    /\ Fresh!8 /\ Fresh!9 /\ Fresh!10 /\ Fresh!11
    /\ measurements \in Files(Ranges, {90}, GroupTimes, MaxDetections)

SpecGroup == InitGroup /\ [][FormGroups]_vars

(* a filter that has seen d twice and is predicted to d's time + gap *)
Predicted(d, gap) ==
    LET c  == Cart(d)
        f1 == initialize_filter_state(CVFilter, IntR(c[1]), IntR(c[2]), IntR(c[3]), d[4])
        f2 == initialize_filter_state(f1, IntR(c[1]), IntR(c[2]), IntR(c[3]), d[4])
        f3 == initialize_filter_state(f2, IntR(c[1]), IntR(c[2]), IntR(c[3]), d[4] + gap)
    IN  predict_step(f3, d[4] + gap)

ClusterLists(maxLen) ==
    UNION {[1..n -> Ranges \X DriverAzimuths \X Elevations \X {0, max_time_diff}]
           : n \in 0..maxLen}

InitJpda ==
    /\ rows = <<>>
    /\ pc = "jpda"
    /\ measurements = <<>>
    /\ measurement_groups = <<>>
    /\ group_idx = 1
    /\ i = 1
    /\ kalman_filter \in {CVFilter} \cup
           {Predicted(<<1, 90, 0, 0>>, g) : g \in Times}
    /\ clusters \in ClusterLists(MaxClusters)
    /\ best_hypothesis = None
    /\ out = <<>>
    /\ log = <<>>
    /\ tracks = <<>>
    /\ ret = 0

SpecJpda == InitJpda /\ [][Jpda]_vars

-----------------------------------------------------------------------------
(* Track and TrackManager of test1.py.  A track is referred to by its      *)
(* position in TrackManager.tracks.                                         *)

Track(track_id) == [track_id |-> track_id, state |-> "free", measurements |-> <<>>]

assign_measurement(self, measurement) ==
    [self EXCEPT !.state = "occupied",
                 !.measurements = Append(self.measurements, measurement)]

release(self) == [self EXCEPT !.state = "free", !.measurements = <<>>]

add_track_from_zero(ts) == Append(ts, Track(Len(ts)))

add_track(ts) == Append(ts, Track(Len(ts) + 1))

get_free_track_last(ts) ==
    LET free == {k \in 1..Len(ts) : ts[k].state = "free"}
    IN  IF free # {}
        THEN [tracks |-> ts, track |-> CHOOSE k \in free : \A j \in free : k >= j]
        ELSE [tracks |-> add_track(ts), track |-> Len(ts) + 1]

(* the list after the call, and the position of the track returned *)
get_free_track(ts) ==
    LET free == {k \in 1..Len(ts) : ts[k].state = "free"}
    IN  IF free # {}
        THEN [tracks |-> ts, track |-> CHOOSE k \in free : \A j \in free : k <= j]
        ELSE [tracks |-> add_track(ts), track |-> Len(ts) + 1]

AddTrack ==
    /\ Len(tracks) < MaxTracks
    /\ tracks' = add_track(tracks)
    /\ pc' = "add_track"
    /\ UNCHANGED <<measurements, measurement_groups, group_idx, i, kalman_filter,
                   clusters, best_hypothesis, out, log, ret, rows>>

GetFreeTrack ==
    /\ LET res == get_free_track(tracks)
       IN  /\ Len(res.tracks) <= MaxTracks
           /\ tracks' = res.tracks
           /\ ret' = res.track
    /\ pc' = "get_free_track"
    /\ UNCHANGED <<measurements, measurement_groups, group_idx, i, kalman_filter,
                   clusters, best_hypothesis, out, log, rows>>

AssignMeasurement ==
    /\ \E k \in 1..Len(tracks), m \in {<<1, 90, 0, 0>>} :
          /\ Len(tracks[k].measurements) < MaxHistory
          /\ tracks' = [tracks EXCEPT ![k] = assign_measurement(tracks[k], m)]
    /\ pc' = "assign_measurement"
    /\ UNCHANGED <<measurements, measurement_groups, group_idx, i, kalman_filter,
                   clusters, best_hypothesis, out, log, ret, rows>>

Release ==
    /\ \E k \in 1..Len(tracks) : tracks' = [tracks EXCEPT ![k] = release(tracks[k])]
    /\ pc' = "release"
    /\ UNCHANGED <<measurements, measurement_groups, group_idx, i, kalman_filter,
                   clusters, best_hypothesis, out, log, ret, rows>>

InitTracks ==
    /\ rows = <<>>
    /\ pc = "TrackManager"
    /\ Fresh

NextTracks == AddTrack \/ GetFreeTrack \/ AssignMeasurement \/ Release

SpecTracks == InitTracks /\ [][NextTracks]_vars

-----------------------------------------------------------------------------
(* main() of test1.py *)

initial_track_pool == 5

RECURSIVE Prepopulate(_, _)
Prepopulate(ts, n) == IF n = 0 THEN ts ELSE Prepopulate(add_track(ts), n - 1)

compute_hypothesis_likelihood_t1(hypothesis, self) ==
    Likelihood(ColVec(hypothesis[1], hypothesis[2], hypothesis[3]), self)

(* jpda of test1.py: the best hypothesis is also assigned to a free track *)
jpda_t1(cl, self, ts) ==
    IF cl = <<>> THEN [best |-> None, tracks |-> ts, track |-> 0]
    ELSE LET L(k) == compute_hypothesis_likelihood_t1(cl[k], self)
             hypothesis_likelihoods == Tab(Len(cl), L)
             best == cl[ArgMax(MarginalProbabilities(hypothesis_likelihoods))]
             res  == get_free_track(ts)
         IN  [best   |-> best,
              tracks |-> [res.tracks EXCEPT ![res.track] =
                             assign_measurement(res.tracks[res.track], best)],
              track  |-> res.track]

(* after the last measurement of a group: the next group, or the end *)
T1NextGroup ==
    /\ i' = 1
    /\ group_idx' = group_idx + 1
    /\ pc' = IF group_idx < Len(measurement_groups) THEN "detect" ELSE "done"

T1Start ==
    /\ pc = "start"
    /\ measurements' = read_measurements_from_csv_t1(rows)
    /\ tracks' = Prepopulate(tracks, initial_track_pool)
    /\ pc' = "group"
    /\ UNCHANGED <<measurement_groups, group_idx, i, kalman_filter, clusters,
                   best_hypothesis, out, log, ret, rows>>

(* the first measurement of every group goes to initialize_filter_state *)
T1GroupHead ==
    /\ pc = "detect"
    /\ LET c == Cart(Group[1])
       IN  kalman_filter' = initialize_filter_state(kalman_filter,
               IntR(c[1]), IntR(c[2]), IntR(c[3]), Group[1][4])
    /\ log' = Append(log, Event("initialize", group_idx, CartVec(Group[1]), kalman_filter))
    /\ IF Len(Group) > 1
       THEN i' = 2 /\ pc' = "predict" /\ UNCHANGED group_idx
       ELSE T1NextGroup
    /\ UNCHANGED <<measurements, measurement_groups, clusters, best_hypothesis,
                   out, tracks, ret, rows>>

T1Predict ==
    /\ pc = "predict"
    /\ kalman_filter' = predict_step(kalman_filter, Detection[4])
    /\ log' = Append(log, Event("predict", group_idx, <<>>, kalman_filter))
    /\ pc' = "update"
    /\ UNCHANGED <<measurements, measurement_groups, group_idx, i, clusters,
                   best_hypothesis, out, tracks, ret, rows>>

T1Update ==
    /\ pc = "update"
    /\ kalman_filter' = update_step(kalman_filter, CartVec(Detection))
    /\ log' = Append(log, Event("update", group_idx, CartVec(Detection), kalman_filter))
    /\ pc' = "jpda"
    /\ UNCHANGED <<measurements, measurement_groups, group_idx, i, clusters,
                   best_hypothesis, out, tracks, ret, rows>>

(* the filter's own position is the only hypothesis *)
T1Jpda ==
    /\ pc = "jpda"
    /\ LET hypothesis == <<kalman_filter.Sf[1][1], kalman_filter.Sf[2][1],
                           kalman_filter.Sf[3][1]>>
           res == jpda_t1(<<hypothesis>>, kalman_filter, tracks)
       IN  /\ clusters' = <<hypothesis>>
           /\ best_hypothesis' = res.best
           /\ tracks' = res.tracks
           /\ ret' = res.track
           /\ log' = Append(log, Event("jpda", group_idx,
                                       ColVec(hypothesis[1], hypothesis[2], hypothesis[3]),
                                       kalman_filter))
    /\ IF i < Len(Group)
       THEN i' = i + 1 /\ pc' = "predict" /\ UNCHANGED group_idx
       ELSE T1NextGroup
    /\ UNCHANGED <<measurements, measurement_groups, kalman_filter, out, rows>>

NextTest1 ==
    \/ T1Start
    \/ FormGroups
    \/ T1GroupHead
    \/ T1Predict
    \/ T1Update
    \/ T1Jpda

InitTest1 ==
    /\ rows \in Files(Ranges, DriverAzimuths, Times, MaxT1Detections)
    /\ pc = "start"
    /\ Fresh

SpecTest1 == InitTest1 /\ [][NextTest1]_vars

-----------------------------------------------------------------------------
(* Properties *)

RECURSIVE Flatten(_)
Flatten(gs) == IF gs = <<>> THEN <<>> ELSE Head(gs) \o Flatten(Tail(gs))

Grouped == pc = "detect" /\ measurements # <<>>

C2_EmptyStream ==
    (measurements = <<>> /\ pc \notin {"start", "group"}) =>
        (pc # "IndexError" /\ measurement_groups = <<>>)

EmptyGate ==
    /\ log # <<>>
    /\ log[Len(log)].op = "gate"
    /\ clusters = <<>>
    /\ pc \in {"detect", "done"}

Count(op) == Cardinality({k \in 1..Len(log) : log[k].op = op})

(* C3: when no detection of the group survives the gate, nothing is        *)
(* associated, no record is appended, and the posterior equals the         *)
(* prediction: Sf = Sp and Pf = Pp                                          *)
C3_EmptyGate ==
    EmptyGate =>
        /\ Len(out) = Count("update")
        /\ kalman_filter.Sf = kalman_filter.Sp
        /\ kalman_filter.Pf = kalman_filter.Pp

(* C4: predict_step with dt = current_time - prev_Time <= 0 does not       *)
(* complete: the driver gets past it to the gating only with dt > 0        *)
C4_NonMonotonicTime ==
    pc = "cluster" => kalman_filter.Meas_Time - kalman_filter.prev_Time > 0

(* C5: the CSV round trip cart2sph(sph2cart(az, el, r)) gives (r, az, el)  *)
(* back on the axis-aligned directions, with the azimuth in [0, 360)       *)
C5_RoundTrip ==
    pc = "group" =>
        \A k \in 1..Len(rows) :
            /\ measurements[k] = rows[k]
            /\ measurements[k][2] >= 0 /\ measurements[k][2] < 360

(* C6: the ids in TrackManager.tracks are contiguous from 1 in list order *)
C6_TrackIds == \A k \in 1..Len(tracks) : tracks[k].track_id = k

C6_Witness ==
    /\ pc = "release"
    /\ Len(tracks) >= 3
    /\ tracks[1].state = "free"
    /\ tracks[2].state = "occupied"

(* C7: get_free_track returns the lowest-id FREE track and leaves the pool *)
(* as it is when a FREE track exists; otherwise it appends exactly one new *)
(* FREE track with id = previous size + 1 and returns that one             *)
C7_GetFreeTrack ==
    [][pc' = "get_free_track" =>
          LET free == {k \in 1..Len(tracks) : tracks[k].state = "free"}
          IN  IF free # {}
              THEN /\ tracks' = tracks
                   /\ ret' \in free
                   /\ \A j \in free : tracks[ret'].track_id <= tracks[j].track_id
              ELSE /\ tracks' = Append(tracks, [track_id |-> Len(tracks) + 1,
                                                state |-> "free",
                                                measurements |-> <<>>])
                   /\ ret' = Len(tracks) + 1]_vars

C7_Witness ==
    /\ pc = "get_free_track"
    /\ Len(tracks) >= 3
    /\ ret = 2
    /\ tracks[1].state = "occupied"
    /\ tracks[3].state = "free"

Weight(k) == compute_hypothesis_likelihood(clusters[k], kalman_filter)

(* the position jpda is to select in weights W: a maximal weight, none as  *)
(* large before it                                                          *)
FirstMaximal(W, k) ==
    /\ \A j \in 1..Len(W) : ~LikLess(W[k], W[j])
    /\ \A j \in 1..(k - 1) : LikLess(W[j], W[k])

(* C8: jpda returns no association exactly when the cluster list is empty; *)
(* otherwise it returns the earliest member whose likelihood weight is     *)
(* maximal, the all-zero uniform fallback included                          *)
C8_Jpda ==
    pc = "update" =>
        /\ (best_hypothesis = None) <=> (clusters = <<>>)
        /\ clusters # <<>> =>
               LET W == Tab(Len(clusters), Weight)
               IN  \E k \in 1..Len(clusters) :
                       FirstMaximal(W, k) /\ best_hypothesis = clusters[k]

C8_Witness ==
    /\ pc = "update"
    /\ Len(clusters) = 2
    /\ clusters[1] # clusters[2]
    /\ best_hypothesis = clusters[1]
    /\ LET W == Tab(Len(clusters), Weight)
       IN  /\ W[1].pos /\ W[1].e # Zero
           /\ ~LikLess(W[1], W[2]) /\ ~LikLess(W[2], W[1])

C10_CartesianVectors ==
    \A k \in 1..Len(log) :
        log[k].op \in {"gate", "score", "update"} =>
            \E j \in 1..Len(measurement_groups[log[k].g]) :
                log[k].Z = CartVec(measurement_groups[log[k].g][j])

(* C11: in the of.py loop, every gating of a group's detection comes after *)
(* a predict_step of that group, and update_step runs at most once per     *)
(* group, after jpda has scored that group's clusters                      *)
C11_OneUpdatePerGroup ==
    \A k \in 1..Len(log) :
        /\ log[k].op = "gate" =>
               \E j \in 1..(k - 1) : log[j].op = "predict" /\ log[j].g = log[k].g
        /\ log[k].op = "update" =>
               /\ \E j \in 1..(k - 1) : log[j].op = "score" /\ log[j].g = log[k].g
               /\ \A j \in 1..(k - 1) : ~(log[j].op = "update" /\ log[j].g = log[k].g)

(* C12: once the second initialize_filter_state call has run with a        *)
(* non-zero dt, and until the first update_step, Sf[3..5] hold the         *)
(* two-point velocity (Z1 - Z2) / dt                                       *)
C12_TwoPointVelocity ==
    (/\ kalman_filter.second_rep_flag
     /\ Count("update") = 0
     /\ measurements[1][4] # measurements[2][4]) =>
        /\ kalman_filter.Sf[4][1] = kalman_filter.vx
        /\ kalman_filter.Sf[5][1] = kalman_filter.vy
        /\ kalman_filter.Sf[6][1] = kalman_filter.vz

====
